---- MODULE Spec2Model ----
(***************************************************************************)
(* Model of llm-cli (src/llm-cli/src/main.rs): the single-shot controller  *)
(* `infer`, the interactive loop `interactive`, the prompt template        *)
(* resolver and the progress sink of `quantize`.  The inference engine,    *)
(* the snapshot store and the quantize producer live in the `llm` crate;   *)
(* they are modelled from their contracts in spec.md sections 3, 4 and 6.  *)
(***************************************************************************)
EXTENDS Integers, Sequences, FiniteSets, TLC

(* ------------------------------ bounds --------------------------------- *)
\* context-size ceiling of a Session, in tokens
NCtx == 2
\* largest value of args.generate.num_predict
MaxPredict == 2
\* accepted lines (turns) per interactive run
MaxTurns == 2
\* pieces (marker or literal character) a prompt template is built from
MaxPieces == 2
\* tensors of the model handed to quantize
MaxTensors == 2
\* HyperparametersLoaded events a producer emits at most
MaxHyper == 2
\* number of distinct states of the random-number generator
RngPeriod == 2

(* ------------------------------ options -------------------------------- *)
\* Option<T>: None is the empty sequence, Some(v) the one-element sequence.
None == << >>
Some(v) == << v >>
IsSome(o) == o # None
Unwrap(o) == o[1]
\* Option::or
OptionOr(a, b) == IF IsSome(a) THEN a ELSE b

Min(a, b) == IF a <= b THEN a ELSE b
IsPrefix(s, t) == Len(s) <= Len(t) /\ SubSeq(t, 1, Len(s)) = s

(* ------------------------- prompt template resolver -------------------- *)
\* the marker "{{PROMPT}}", as its characters
Marker == << "{", "{", "P", "R", "O", "M", "P", "T", "}", "}" >>

\* str::replace(from, to): every non-overlapping match, scanning left to right
RECURSIVE Replace(_, _, _)
Replace(s, from, to) ==
    IF Len(s) < Len(from) THEN s
    ELSE IF SubSeq(s, 1, Len(from)) = from
         THEN to \o Replace(SubSeq(s, Len(from) + 1, Len(s)), from, to)
         ELSE << Head(s) >> \o Replace(Tail(s), from, to)

\* str::replacen(from, to, 1): the first match only
RECURSIVE ReplaceFirst(_, _, _)
ReplaceFirst(s, from, to) ==
    IF Len(s) < Len(from) THEN s
    ELSE IF SubSeq(s, 1, Len(from)) = from
         THEN to \o SubSeq(s, Len(from) + 1, Len(s))
         ELSE << Head(s) >> \o ReplaceFirst(Tail(s), from, to)

\* variant: only the first marker is replaced
process_prompt_First(raw_prompt, user_prompt) == ReplaceFirst(raw_prompt, Marker, user_prompt)

process_prompt(raw_prompt, user_prompt) == Replace(raw_prompt, Marker, user_prompt)

\* variant: a template given alone is expanded with an empty prompt
load_prompt_file_with_prompt_Expand(pf, p) ==
    IF IsSome(pf)
    THEN Some(process_prompt(Unwrap(pf), IF IsSome(p) THEN Unwrap(p) ELSE << >>))
    ELSE IF IsSome(p) THEN Some(Unwrap(p))
                      ELSE None

\* load_prompt_file_with_prompt: Some(text to feed), or None where the code
\* logs "No prompt or prompt file was provided" and exits with status 1
load_prompt_file_with_prompt(pf, p) ==
    IF IsSome(pf)
    THEN IF IsSome(p) THEN Some(process_prompt(Unwrap(pf), Unwrap(p)))
                      ELSE Some(Unwrap(pf))
    ELSE IF IsSome(p) THEN Some(Unwrap(p))
                      ELSE None

\* the prompt of an interactive turn:
\* prompt_file.as_deref().map(|pf| process_prompt(pf, &line)).unwrap_or(line)
ResolveLine(pf, line) ==
    IF IsSome(pf) THEN process_prompt(Unwrap(pf), line) ELSE line

(* ------------------------------ inputs --------------------------------- *)
\* a template is a sequence of pieces: the marker ("M") or a literal character
Pieces == { "M", "a" }
PieceText(piece) == IF piece = "M" THEN Marker ELSE << piece >>

RECURSIVE Flatten(_)
Flatten(ps) == IF ps = << >> THEN << >> ELSE PieceText(Head(ps)) \o Flatten(Tail(ps))

PieceSeqs == UNION { [1..n -> Pieces] : n \in 1..MaxPieces }
Templates == { Flatten(ps) : ps \in PieceSeqs }
PromptFiles == { None } \cup { Some(t) : t \in Templates }

\* args.prompt_file of the interactive commands: absent, or "a{{PROMPT}}"
ReplPromptFiles == { None, Some(<< "a" >> \o Marker) }

\* literal prompts of `infer --prompt`, one of them the marker itself
PromptArgs == { None, Some(<< >>), Some(<< "b" >>), Some(Marker) }
\* lines typed at the ">> " prompt
Lines == { << >>, << "b" >>, << "b", "b", "b" >> }

(* --------------------- engine contract (llm crate) --------------------- *)
Vocabulary == << "{", "}", "P", "R", "O", "M", "T", "a", "b", "x", "y" >>
TokenId(c) == CHOOSE i \in 1..Len(Vocabulary) : Vocabulary[i] = c
TokenText(id) == Vocabulary[id]
Tokenize(text) == [ i \in 1..Len(text) |-> TokenId(text[i]) ]

\* the token the sampler draws in rng state r, and the state after a draw
Sample(r) == IF r % 2 = 0 THEN TokenId("x") ELSE TokenId("y")
RngNext(r) == (r + 1) % RngPeriod

RECURSIVE GenTokens(_, _)
GenTokens(r, j) == IF j = 0 THEN << >> ELSE << Sample(r) >> \o GenTokens(RngNext(r), j - 1)
RECURSIVE RngAfter(_, _)
RngAfter(r, j) == IF j = 0 THEN r ELSE RngAfter(RngNext(r), j - 1)

\* feed(session, params, text, callback): tokenizes and appends to the context
FeedOutcomes(sess, toks) ==
    LET room == NCtx - Len(sess)
        fits == Len(toks) <= room
        part == { sess \o SubSeq(toks, 1, k) : k \in 0..Min(Len(toks), room) }
    IN  (IF fits THEN { [res |-> "Ok", session |-> sess \o toks] }
                 ELSE { [res |-> "ContextFull", session |-> s] : s \in part })
        \cup { [res |-> "TokenizationFailed", session |-> sess] }
        \cup { [res |-> e, session |-> s] : e \in { "UserCallback", "EndOfText" }, s \in part }

\* the generation half of generate(): up to max tokens, one rng draw per token,
\* each token handed to the output callback as it is produced
GenOutcomes(sess, r, max) ==
    LET room == NCtx - Len(sess)
        grown(j) == [ session |-> sess \o GenTokens(r, j), rng |-> RngAfter(r, j),
                      out |-> [ i \in 1..j |-> TokenText(GenTokens(r, j)[i]) ] ]
        with(o, e) == [ res |-> e, session |-> o.session, rng |-> o.rng, out |-> o.out ]
    IN  { with(grown(j), "Ok") : j \in 0..Min(max, room) }
        \cup (IF room < max THEN { with(grown(room), "ContextFull") } ELSE { })
        \cup { with(grown(j), e) : j \in 0..Min(max, room), e \in { "UserCallback", "EndOfText" } }

\* generate(session, params, prompt, max_tokens, rng, callback): feed the
\* prompt, then generate; a failed feed ends the call with that error
InferenceOutcomes(sess, toks, r, max) ==
    UNION { IF f.res = "Ok"
            THEN GenOutcomes(f.session, r, max)
            ELSE { [ res |-> f.res, session |-> f.session, rng |-> r, out |-> << >> ] }
          : f \in FeedOutcomes(sess, toks) }

\* snapshot::read_or_create_session: sessions a snapshot file may hold
StoredSessions == { << >>, << TokenId("a") >> }
ReadOrCreate(persist, load) ==
    { [ session |-> << >>, loaded |-> FALSE ] }
    \cup (IF IsSome(persist) \/ IsSome(load)
          THEN { [ session |-> s, loaded |-> TRUE ] : s \in StoredSessions }
          ELSE { })

(* ------------------------------- state --------------------------------- *)
VARIABLES
    cmd,             \* the subcommand main dispatches on
    pc,              \* position of the running function
    outcome,         \* how the process ended: "Running", "Ok", "Err", "Exit1", "Panic"
    prompt_file,     \* args.prompt_file.contents()
    prompt_arg,      \* args.prompt
    persist_session, \* args.persist_session
    save_session,    \* args.save_session
    load_session,    \* args.generate.load_session
    num_predict,     \* args.generate.num_predict
    session,         \* the Session: its token context
    session_loaded,  \* flag returned by read_or_create_session
    session_backup,  \* session_backup of the turn in progress
    rng,             \* state of args.generate.rng()
    prompt,          \* the resolved prompt
    readline,        \* the last value rl.readline returned
    feed_res,        \* result of the last feed_prompt call
    res,             \* result of the last inference_with_prompt call
    log,             \* records logged so far (interactive: since the last readline)
    stdout,          \* text printed by the last inference_with_prompt call
    store,           \* snapshot::write_session calls: << [path, session] >>
    calls,           \* engine and clone/restore operations since the last accepted line
    turn,            \* accepted lines so far
    turn_start,      \* Session at the start of the current turn
    prev_start,      \* Session at the start of the previous turn
    turn_line,       \* the line of the current turn
    prev_line,       \* the line of the previous turn
    prev_stdout,     \* text printed by the previous turn
    q_left,          \* quantize producer: tensors still to process
    q_stage,         \* quantize producer: phase
    q_hyper,         \* quantize producer: HyperparametersLoaded events emitted
    emitted          \* quantize producer: events emitted, in order

vars == << cmd, pc, outcome, prompt_file, prompt_arg, persist_session, save_session,
           load_session, num_predict, session, session_loaded, session_backup, rng,
           prompt, readline, feed_res, res, log, stdout, store, calls, turn,
           turn_start, prev_start, turn_line, prev_line, prev_stdout, q_left, q_stage,
           q_hyper, emitted >>

args == << cmd, prompt_file, prompt_arg, persist_session, save_session, load_session,
           num_predict >>
quant == << q_left, q_stage, q_hyper, emitted >>
hist == << turn, turn_start, prev_start, turn_line, prev_line, prev_stdout >>

Commands == { "Infer", "Repl", "ChatExperimental", "Quantize" }

\* main: Args::Repl => interactive(&args, false), Args::ChatExperimental => (.., true)
chat_mode == cmd = "ChatExperimental"

\* a log record; arg is the tensor index of a quantize progress line, else 0
EntryFor(level, msg, arg) == [ level |-> level, msg |-> msg, arg |-> arg ]
Entry(level, msg) == EntryFor(level, msg, 0)

Init ==
    /\ cmd \in Commands
    /\ pc = "Start"
    /\ outcome = "Running"
    /\ prompt_file \in (CASE cmd = "Infer" -> PromptFiles
                           [] cmd = "Quantize" -> { None }
                           [] OTHER -> ReplPromptFiles)
    /\ prompt_arg \in (IF cmd = "Infer" THEN PromptArgs ELSE { None })
    /\ persist_session \in (IF cmd = "Infer" THEN { None, Some("persist") } ELSE { None })
    /\ save_session \in (IF cmd = "Infer" THEN { None, Some("save") } ELSE { None })
    /\ load_session \in (IF cmd = "Quantize" THEN { None } ELSE { None, Some("load") })
    /\ num_predict \in (IF cmd = "Quantize" THEN { 0 } ELSE 0..MaxPredict)
    /\ session = << >>
    /\ session_loaded = FALSE
    /\ session_backup = None
    /\ rng = 0
    /\ prompt = << >>
    /\ readline = [ kind |-> "None", line |-> << >> ]
    /\ feed_res = "None"
    /\ res = "None"
    /\ log = << >>
    /\ stdout = << >>
    /\ store = << >>
    /\ calls = << >>
    /\ turn = 0
    /\ turn_start = << >>
    /\ prev_start = << >>
    /\ turn_line = << >>
    /\ prev_line = << >>
    /\ prev_stdout = << >>
    /\ q_left \in (IF cmd = "Quantize" THEN 0..MaxTensors ELSE { 0 })
    /\ q_stage = "Hyper"
    /\ q_hyper = 0
    /\ emitted = << >>

(* -------------------------- interactive loop --------------------------- *)
\* variant: the backup is taken in chat mode too
TakeBackup_Always(chat, sess) == Some(sess)

\* variant: no backup is taken in either mode
TakeBackup_Never(chat, sess) == None

\* let session_backup = if chat_mode { None } else { Some(session.clone()) }
TakeBackup(chat, sess) == IF chat THEN None ELSE Some(sess)

\* variant: the backup is dropped without being restored
RestoreSession_Keep(sess, backup) == sess

\* if let Some(session_backup) = session_backup { session = session_backup; }
RestoreSession(sess, backup) == IF IsSome(backup) THEN Unwrap(backup) ELSE sess

\* variant: every line-source error breaks out of the loop
ReadlineArm_BreakOnAnyErr(kind) == IF kind = "Ok" THEN "turn" ELSE "break"

\* the arm of `match readline` taken for a line-source result
ReadlineArm(kind) ==
    CASE kind = "Ok" -> "turn"
      [] kind \in { "Eof", "Interrupted" } -> "break"
      [] OTHER -> "log"

\* variant: a context-exhausted reply breaks out of the loop
AfterTurn_BreakOnContextFull(feed_result, result) ==
    IF result = "ContextFull" THEN "Closed" ELSE "AwaitingLine"

\* where the loop stands after the Ok arm has run: the arm has no break or
\* return, whatever feed and generate reported
AfterTurn(feed_result, result) == "AwaitingLine"

\* variant: a context-exhausted feed skips the generation of the turn
AfterFeed_SkipOnContextFull(feed_result) ==
    IF feed_result = "ContextFull" THEN "Restore" ELSE "Generate"

\* variant: a feed error other than ContextFull breaks out of the loop
AfterFeed_BreakOnError(feed_result) ==
    IF feed_result \in { "Ok", "ContextFull" } THEN "Generate" ELSE "Closed"

\* where the Ok arm stands after feed_prompt: the `if let` only logs, and
\* inference_with_prompt is the next statement whatever the feed reported
AfterFeed(feed_result) == "Generate"

\* variant: the rng is created anew for every turn
RngAtTurnStart_Reseed(r) == 0

\* the rng a turn draws from: created once before `loop`, so the state left
\* by the turns before
RngAtTurnStart(r) == r

\* `if let Err(InferenceError::ContextFull) = ...` after feed_prompt
FeedLog(feed_result) ==
    IF feed_result = "ContextFull"
    THEN << Entry("error", "Prompt exceeds context window length.") >> ELSE << >>

\* variant: a context-exhausted reply is not logged
ReplyLog_Silent(result) == << >>

\* `if let Err(InferenceError::ContextFull) = res` after inference_with_prompt
ReplyLog(result) ==
    IF result = "ContextFull"
    THEN << Entry("error", "Reply exceeds context window length") >> ELSE << >>

\* variant: the line-source error is dropped silently
LineErrLog_Silent(kind) == << >>

\* Err(err) => log::error!("{err}")
LineErrLog(kind) == << Entry("error", kind) >>

ReadlineKinds == { "Ok", "Eof", "Interrupted", "Io" }

\* lines 115-127: load the model, obtain the Session, create rng and editor
InteractiveSetup ==
    /\ cmd \in { "Repl", "ChatExperimental" }
    /\ pc = "Start"
    /\ \/ \E s \in ReadOrCreate(None, load_session) :
             /\ session' = s.session
             /\ session_loaded' = s.loaded
             /\ pc' = "AwaitingLine"
             /\ UNCHANGED outcome
       \/ /\ pc' = "Done"
          /\ outcome' = "Err"
          /\ UNCHANGED << session, session_loaded >>
    /\ UNCHANGED << args, session_backup, rng, prompt, readline, feed_res, res, log,
                    stdout, store, calls, hist, quant >>

\* rl.readline(">> ") returned Ok(line): backup and prompt resolution
ReadLineOk ==
    /\ pc = "AwaitingLine"
    /\ turn < MaxTurns
    /\ ReadlineArm("Ok") = "turn"
    /\ \E line \in Lines :
          /\ readline' = [ kind |-> "Ok", line |-> line ]
          /\ session_backup' = TakeBackup(chat_mode, session)
          /\ prompt' = ResolveLine(prompt_file, line)
    /\ calls' = IF IsSome(session_backup') THEN << "clone" >> ELSE << >>
    /\ log' = << >>
    /\ turn' = turn + 1
    /\ turn_start' = session
    /\ prev_start' = turn_start
    /\ turn_line' = readline'.line
    /\ prev_line' = turn_line
    /\ prev_stdout' = stdout
    /\ rng' = RngAtTurnStart(rng)
    /\ pc' = "Feed"
    /\ UNCHANGED << args, outcome, session, session_loaded, feed_res, res, stdout,
                    store, quant >>

\* rl.readline returned Err(Eof) or Err(Interrupted): break, then Ok(())
ReadLineClose ==
    /\ pc = "AwaitingLine"
    /\ \E kind \in ReadlineKinds \ { "Ok" } :
          /\ ReadlineArm(kind) = "break"
          /\ readline' = [ kind |-> kind, line |-> << >> ]
    /\ pc' = "Closed"
    /\ outcome' = "Ok"
    /\ log' = << >>
    /\ UNCHANGED << args, session, session_loaded, session_backup, rng, prompt, feed_res,
                    res, stdout, store, calls, hist, quant >>

\* rl.readline returned any other Err(err): log::error!("{err}")
ReadLineErr ==
    /\ pc = "AwaitingLine"
    /\ \E kind \in ReadlineKinds \ { "Ok" } :
          /\ ReadlineArm(kind) = "log"
          /\ readline' = [ kind |-> kind, line |-> << >> ]
          /\ log' = LineErrLog(kind)
    /\ pc' = "AwaitingLine"
    /\ UNCHANGED << args, outcome, session, session_loaded, session_backup, rng, prompt,
                    feed_res, res, stdout, store, calls, hist, quant >>

\* session.feed_prompt(model, params, &prompt, |_| Ok(()))
FeedPrompt ==
    /\ pc = "Feed"
    /\ \E o \in FeedOutcomes(session, Tokenize(prompt)) :
          /\ session' = o.session
          /\ feed_res' = o.res
          /\ log' = log \o FeedLog(o.res)
    /\ calls' = Append(calls, "feed")
    /\ pc' = AfterFeed(feed_res')
    /\ UNCHANGED << args, outcome, session_loaded, session_backup, rng, prompt, readline,
                    res, stdout, store, hist, quant >>

\* session.inference_with_prompt(model, params, "", num_predict, &mut rng, print)
Generate ==
    /\ pc = "Generate"
    /\ \E o \in InferenceOutcomes(session, Tokenize(<< >>), rng, num_predict) :
          /\ session' = o.session
          /\ rng' = o.rng
          /\ stdout' = Append(o.out, "\n")
          /\ res' = o.res
          /\ log' = log \o ReplyLog(o.res)
    /\ calls' = Append(calls, "generate")
    /\ pc' = "Restore"
    /\ UNCHANGED << args, outcome, session_loaded, session_backup, prompt, readline,
                    feed_res, store, hist, quant >>

\* end of the Ok arm: the backup, if any, replaces the Session
Restore ==
    /\ pc = "Restore"
    /\ session' = RestoreSession(session, session_backup)
    /\ session_backup' = None
    /\ calls' = IF IsSome(session_backup) THEN Append(calls, "restore") ELSE calls
    /\ pc' = AfterTurn(feed_res, res)
    /\ outcome' = IF pc' = "Closed" THEN "Ok" ELSE outcome
    /\ UNCHANGED << args, session_loaded, rng, prompt, readline, feed_res, res, log,
                    stdout, store, hist, quant >>

(* ------------------------- single-shot inference ----------------------- *)
\* the `match res` of infer: what is logged for a result
InferLog(result) ==
    CASE result = "ContextFull" ->
            << Entry("warn", "Context window full, stopping inference.") >>
      [] result = "TokenizationFailed" ->
            << Entry("error", "Failed to tokenize initial prompt.") >>
      [] OTHER -> << >>

\* variant: a tokenization failure also ends in the unreachable! arm
InferUnreachable_AlsoTokenization(result) ==
    result \in { "UserCallback", "EndOfText", "TokenizationFailed" }

\* the `match res` of infer: the arm that is unreachable!("cannot fail")
InferUnreachable(result) == result \in { "UserCallback", "EndOfText" }

\* variant: the persistence path takes precedence over the save path
PersistTarget_PersistFirst(save, persist) == OptionOr(persist, save)

\* args.save_session.as_ref().or(args.persist_session.as_ref())
PersistTarget(save, persist) == OptionOr(save, persist)

\* variant: a context-exhausted run is reported as a failure
InferReturn_ErrOnContextFull(result) == IF result = "ContextFull" THEN "Err" ELSE "Ok"

\* what infer returns once the match has been passed: Ok(()) on every path
InferReturn(result) == "Ok"

\* load_prompt_file_with_prompt(&args.prompt_file, args.prompt.as_deref())
InferLoadPrompt ==
    /\ cmd = "Infer"
    /\ pc = "Start"
    /\ LET r == load_prompt_file_with_prompt(prompt_file, prompt_arg)
       IN  IF IsSome(r)
           THEN /\ prompt' = Unwrap(r)
                /\ pc' = "LoadModel"
                /\ UNCHANGED << log, outcome >>
           ELSE /\ log' = Append(log, Entry("error",
                                  "No prompt or prompt file was provided. See --help"))
                /\ pc' = "Exited"
                /\ outcome' = "Exit1"
                /\ UNCHANGED prompt
    /\ UNCHANGED << args, session, session_loaded, session_backup, rng, readline, feed_res,
                    res, stdout, store, calls, hist, quant >>

\* lines 33-43: load the model (may fail: `?`), obtain the Session, create rng
InferSetup ==
    /\ cmd = "Infer"
    /\ pc = "LoadModel"
    /\ \/ \E s \in ReadOrCreate(persist_session, load_session) :
             /\ session' = s.session
             /\ session_loaded' = s.loaded
             /\ pc' = "Inference"
             /\ UNCHANGED outcome
       \/ /\ pc' = "Done"
          /\ outcome' = "Err"
          /\ UNCHANGED << session, session_loaded >>
    /\ UNCHANGED << args, session_backup, rng, prompt, readline, feed_res, res, log,
                    stdout, store, calls, hist, quant >>

\* session.inference_with_prompt(model, params, &prompt, num_predict, &mut rng, print)
InferRun ==
    /\ cmd = "Infer"
    /\ pc = "Inference"
    /\ \E o \in InferenceOutcomes(session, Tokenize(prompt), rng, num_predict) :
          /\ session' = o.session
          /\ rng' = o.rng
          /\ stdout' = Append(o.out, "\n")
          /\ res' = o.res
    /\ calls' = Append(calls, "generate")
    /\ pc' = "Match"
    /\ UNCHANGED << args, outcome, session_loaded, session_backup, prompt, readline,
                    feed_res, log, store, hist, quant >>

\* match res { .. }
InferMatch ==
    /\ cmd = "Infer"
    /\ pc = "Match"
    /\ log' = log \o InferLog(res)
    /\ IF InferUnreachable(res)
       THEN pc' = "Panicked" /\ outcome' = "Panic"
       ELSE pc' = "Persist" /\ UNCHANGED outcome
    /\ UNCHANGED << args, session, session_loaded, session_backup, rng, prompt, readline,
                    feed_res, res, stdout, store, calls, hist, quant >>

\* if let Some(session_path) = .. { snapshot::write_session(session, session_path) }; Ok(())
InferPersist ==
    /\ cmd = "Infer"
    /\ pc = "Persist"
    /\ LET target == PersistTarget(save_session, persist_session)
       IN  store' = IF IsSome(target)
                    THEN Append(store, [ path |-> Unwrap(target), session |-> session ])
                    ELSE store
    /\ calls' = IF store' # store THEN Append(calls, "write") ELSE calls
    /\ pc' = "Done"
    /\ outcome' = InferReturn(res)
    /\ UNCHANGED << args, session, session_loaded, session_backup, rng, prompt, readline,
                    feed_res, res, log, stdout, hist, quant >>

(* ------------------------------- quantize ------------------------------ *)
EventKinds == { "HyperparametersLoaded", "TensorLoading", "TensorQuantizing",
                "TensorQuantized", "TensorSkipped", "Finished" }

Event(kind, name) == [ kind |-> kind, name |-> name ]

\* the events the producer may emit next (spec.md 4.4): zero or more
\* HyperparametersLoaded, then the events of each tensor, then Finished
NextEvents(stage, left, hyper) ==
    LET tensors == IF left > 0 THEN { Event("TensorLoading", left) }
                               ELSE { Event("Finished", 0) }
    IN  CASE stage = "Hyper" ->
                (IF hyper < MaxHyper THEN { Event("HyperparametersLoaded", 0) } ELSE { })
                \cup tensors
          [] stage = "Idle" -> tensors
          [] stage = "Loading" ->
                { Event("TensorQuantizing", left), Event("TensorSkipped", left) }
          [] stage = "Quantizing" -> { Event("TensorQuantized", left) }
          [] OTHER -> { }

StageAfter(stage, ev) ==
    CASE ev.kind = "HyperparametersLoaded" -> "Hyper"
      [] ev.kind = "TensorLoading" -> "Loading"
      [] ev.kind = "TensorQuantizing" -> "Quantizing"
      [] ev.kind \in { "TensorQuantized", "TensorSkipped" } -> "Idle"
      [] OTHER -> "Finished"

\* the log::info! line the closure writes for an event
Render(ev) ==
    EntryFor("info",
        CASE ev.kind = "HyperparametersLoaded" -> "Loaded hyperparameters"
          [] ev.kind = "TensorLoading" -> "Loading tensor"
          [] ev.kind = "TensorQuantizing" -> "Quantizing tensor"
          [] ev.kind = "TensorQuantized" -> "Quantized tensor"
          [] ev.kind = "TensorSkipped" -> "Skipped tensor"
          [] OTHER -> "Finished quantization",
        ev.name)

\* variant: the closure has no arm that reports Finished
QuantizeSink_DropFinished(lg, ev) ==
    IF ev.kind = "Finished" THEN lg ELSE Append(lg, Render(ev))

\* the progress closure handed to quantize: every event is matched and logged
QuantizeSink(lg, ev) == Append(lg, Render(ev))

\* the producer emits one event; the closure runs inline and returns ()
QuantizeEmit ==
    /\ cmd = "Quantize"
    /\ pc = "Start"
    /\ \E ev \in NextEvents(q_stage, q_left, q_hyper) :
          /\ emitted' = Append(emitted, ev)
          /\ log' = QuantizeSink(log, ev)
          /\ q_stage' = StageAfter(q_stage, ev)
          /\ q_hyper' = IF ev.kind = "HyperparametersLoaded" THEN q_hyper + 1 ELSE q_hyper
          /\ q_left' = IF ev.kind \in { "TensorQuantized", "TensorSkipped" }
                       THEN q_left - 1 ELSE q_left
    /\ UNCHANGED << args, pc, outcome, session, session_loaded, session_backup, rng, prompt,
                    readline, feed_res, res, stdout, store, calls, hist >>

\* quantize(..) returns; .wrap_err("failed to quantize model")
QuantizeReturn ==
    /\ cmd = "Quantize"
    /\ pc = "Start"
    /\ q_stage = "Finished"
    /\ pc' = "Done"
    /\ outcome' \in { "Ok", "Err" }
    /\ UNCHANGED << args, session, session_loaded, session_backup, rng, prompt, readline,
                    feed_res, res, log, stdout, store, calls, hist, quant >>

Next ==
    \/ InferLoadPrompt
    \/ InferSetup
    \/ InferRun
    \/ InferMatch
    \/ InferPersist
    \/ QuantizeEmit
    \/ QuantizeReturn
    \/ InteractiveSetup
    \/ ReadLineOk
    \/ ReadLineClose
    \/ ReadLineErr
    \/ FeedPrompt
    \/ Generate
    \/ Restore

Spec == Init /\ [][Next]_vars

(* ------------------------------ properties ----------------------------- *)
Processing == pc \in { "Feed", "Generate", "Restore" }
CloseKinds == { "Eof", "Interrupted" }

\* C1 (rollback invariant): in non-persistent mode the Session at the start of
\* a turn equals the Session at the start of the turn before it, and between
\* turns the Session is the one the last turn started from, whatever that
\* turn's feed and generate reported.
RollbackInvariant ==
    cmd = "Repl" =>
        /\ (turn >= 2 => turn_start = prev_start)
        /\ (pc = "AwaitingLine" /\ turn >= 1 => session = turn_start)

\* C1 witness: a second turn starts after a first turn that printed tokens and
\* ran out of context
RollbackWitness ==
    /\ cmd = "Repl" /\ turn = 2 /\ pc = "Feed"
    /\ res = "ContextFull" /\ Len(stdout) > 1
    /\ session = prev_start

\* C2 as stated: in persistent mode the Session after a turn is a proper
\* extension of the Session before it.
AccumulationStrict ==
    (chat_mode /\ pc = "AwaitingLine" /\ turn >= 1) =>
        (IsPrefix(turn_start, session) /\ Len(session) > Len(turn_start))

\* C2 amended: in persistent mode no step of the loop removes anything from
\* the Session (each step leaves the old context as a prefix of the new one),
\* so the Session after a turn extends the Session before it, possibly by
\* nothing.
Accumulation ==
    /\ []((chat_mode /\ turn >= 1) => IsPrefix(turn_start, session))
    /\ [][chat_mode => IsPrefix(session, session')]_vars

\* C2 witness: a persistent-mode turn has ended with a longer Session
AccumulationWitness ==
    /\ chat_mode /\ pc = "AwaitingLine" /\ turn = 2
    /\ Len(turn_start) > 0 /\ Len(session) > Len(turn_start)

\* C3 (context-exhaustion non-fatality): a turn whose feed or generate
\* reported ContextFull ends in AwaitingLine with the process still running,
\* and in AwaitingLine a further line is accepted.
ContextFullNonFatal ==
    /\ [][(pc = "Restore" /\ (feed_res = "ContextFull" \/ res = "ContextFull"))
            => (pc' = "AwaitingLine" /\ outcome' = "Running")]_vars
    /\ [][(pc = "Generate" /\ feed_res = "ContextFull") => pc' = "Restore"]_vars
    /\ []((pc = "AwaitingLine" /\ turn < MaxTurns) => ENABLED ReadLineOk)

\* C3 witness: a second line is being processed after a turn in which both the
\* feed and the generate reported ContextFull
ContextFullWitness ==
    /\ turn = 2 /\ pc = "Feed"
    /\ feed_res = "ContextFull" /\ res = "ContextFull"

\* C4: the loop moves to Closed only from AwaitingLine and only on Eof or
\* Interrupted, every Eof or Interrupted moves it there, and Closed is a clean
\* exit.
ClosedOnlyOnEofOrInterrupt ==
    /\ [][(pc' = "Closed" /\ pc # "Closed")
            => (pc = "AwaitingLine" /\ readline'.kind \in CloseKinds)]_vars
    /\ [][(pc = "AwaitingLine" /\ readline'.kind \in CloseKinds) => pc' = "Closed"]_vars
    /\ [](pc = "Closed" => (readline.kind \in CloseKinds /\ outcome = "Ok"))

\* C4 witness: the loop was interrupted after a turn that ran out of context
ClosedWitness ==
    /\ pc = "Closed" /\ readline.kind = "Interrupted"
    /\ turn >= 1 /\ res = "ContextFull"

\* C5: a line-source error other than Eof/Interrupted is logged and the loop
\* awaits a line again: no backup, no feed, no generate, Session unchanged.
LineErrorRecoverable ==
    [][(pc = "AwaitingLine" /\ readline'.kind \notin (CloseKinds \cup { "Ok" }))
         => /\ pc' = "AwaitingLine"
            /\ outcome' = "Running"
            /\ session' = session
            /\ session_backup' = None
            /\ calls' = calls
            /\ turn' = turn
            /\ log' = << Entry("error", readline'.kind) >>]_vars

\* C5 witness: an I/O error of the line source was logged between two turns
LineErrorWitness ==
    /\ pc = "AwaitingLine" /\ readline.kind = "Io" /\ turn >= 1
    /\ log = << Entry("error", "Io") >>

\* the template built from pieces ps with the marker pieces replaced by text
RECURSIVE Subst(_, _)
Subst(ps, text) ==
    IF ps = << >> THEN << >>
    ELSE (IF Head(ps) = "M" THEN text ELSE << Head(ps) >>) \o Subst(Tail(ps), text)

\* C6: the text infer feeds is the template with the prompt in place of each
\* marker (both given), the template verbatim (template only), the prompt
\* verbatim (prompt only); with neither, exit status 1 and nothing is run.
TemplateResolution ==
    cmd = "Infer" =>
        /\ (pc = "Exited") = (pc # "Start" /\ prompt_file = None /\ prompt_arg = None)
        /\ pc = "Exited" => /\ outcome = "Exit1"
                            /\ calls = << >> /\ store = << >> /\ session = << >>
                            /\ \E i \in 1..Len(log) : log[i].level = "error"
        /\ pc \notin { "Start", "Exited" } =>
             /\ (IsSome(prompt_file) /\ IsSome(prompt_arg)) =>
                   \A ps \in PieceSeqs :
                      Flatten(ps) = Unwrap(prompt_file)
                         => prompt = Subst(ps, Unwrap(prompt_arg))
             /\ (IsSome(prompt_file) /\ ~IsSome(prompt_arg)) => prompt = Unwrap(prompt_file)
             /\ (~IsSome(prompt_file) /\ IsSome(prompt_arg)) => prompt = Unwrap(prompt_arg)

\* C6 witness: template "a{{PROMPT}}" and prompt "b" resolved to "ab"
TemplateResolutionWitness ==
    /\ cmd = "Infer" /\ pc = "Inference"
    /\ prompt_file = Some(<< "a" >> \o Marker) /\ prompt_arg = Some(<< "b" >>)
    /\ prompt = << "a", "b" >>

\* C7: infer writes the Session at most once, only as its last step after the
\* inference call and its match; when it returns, the store holds exactly one
\* write of the final Session to save_session (else persist_session) if either
\* is set, and no write if neither is.
SingleShotPersistence ==
    cmd = "Infer" =>
        /\ Len(store) <= 1
        /\ (pc # "Done" \/ outcome # "Ok") => store = << >>
        /\ (pc = "Done" /\ outcome = "Ok") =>
             /\ res # "None"
             /\ IF IsSome(save_session)
                THEN store = << [ path |-> Unwrap(save_session), session |-> session ] >>
                ELSE IF IsSome(persist_session)
                THEN store = << [ path |-> Unwrap(persist_session), session |-> session ] >>
                ELSE store = << >>
             /\ calls = IF store = << >> THEN << "generate" >> ELSE << "generate", "write" >>

\* C7 witness: both paths set, the grown Session was written to the save path
PersistenceWitness ==
    /\ cmd = "Infer" /\ pc = "Done"
    /\ IsSome(save_session) /\ IsSome(persist_session)
    /\ Len(store) = 1 /\ store[1].path = "save" /\ Len(store[1].session) > 0

\* C8 as stated: a single-shot run whose inference reported
\* TokenizationFailed logs an error and does not report success.
TokenizationFailureFails ==
    (cmd = "Infer" /\ pc = "Done" /\ res = "TokenizationFailed") =>
        /\ outcome # "Ok"
        /\ \E i \in 1..Len(log) : log[i].level = "error"

\* C9: a single-shot run whose inference reported ContextFull logs a warning,
\* never panics or exits early, and returns success.
ContextFullEndsNormally ==
    (cmd = "Infer" /\ res = "ContextFull") =>
        /\ pc \in { "Match", "Persist", "Done" }
        /\ pc # "Match" =>
              log = << Entry("warn", "Context window full, stopping inference.") >>
        /\ pc # "Done" => outcome = "Running"
        /\ pc = "Done" => outcome = "Ok"

\* C9 witness: such a run has returned
ContextFullEndsWitness ==
    /\ cmd = "Infer" /\ pc = "Done" /\ res = "ContextFull" /\ outcome = "Ok"
    /\ Len(stdout) > 1

\* the progress event a log line reports
KindOfMsg(msg) ==
    CASE msg = "Loaded hyperparameters" -> "HyperparametersLoaded"
      [] msg = "Loading tensor" -> "TensorLoading"
      [] msg = "Quantizing tensor" -> "TensorQuantizing"
      [] msg = "Quantized tensor" -> "TensorQuantized"
      [] msg = "Skipped tensor" -> "TensorSkipped"
      [] msg = "Finished quantization" -> "Finished"
      [] OTHER -> "none"

PhaseOf(kind) ==
    CASE kind = "HyperparametersLoaded" -> 0
      [] kind = "Finished" -> 2
      [] OTHER -> 1

Interactive == cmd \in { "Repl", "ChatExperimental" }
\* feed_prompt and inference_with_prompt calls since the last accepted line
EngineCalls == SelectSeq(calls, LAMBDA c : c \in { "feed", "generate" })
\* the operations of a complete turn, in order
FullTurn == IF chat_mode THEN << "feed", "generate" >>
                         ELSE << "clone", "feed", "generate", "restore" >>
PromptExceeds == Entry("error", "Prompt exceeds context window length.")
ReplyExceeds == Entry("error", "Reply exceeds context window length")
Logged(e) == \E i \in 1..Len(log) : log[i] = e

\* C11: in a turn whose feed reported ContextFull the error is logged first
\* and generate is then invoked, exactly once and after the feed.
FeedContextFullProceeds ==
    (Interactive /\ feed_res = "ContextFull") =>
        /\ pc = "Generate" => (log = << PromptExceeds >> /\ EngineCalls = << "feed" >>)
        /\ pc = "Restore" => /\ log[1] = PromptExceeds
                             /\ EngineCalls = << "feed", "generate" >>
        /\ (pc \in { "AwaitingLine", "Closed" }) => EngineCalls = << "feed", "generate" >>

\* C11 witness: after a context-exhausted feed the generate of the same turn
\* produced tokens
FeedContextFullWitness ==
    /\ Interactive /\ pc = "Restore" /\ turn = 1
    /\ feed_res = "ContextFull" /\ res = "Ok" /\ Len(stdout) > 1

\* C12 as stated: after a context-exhausted feed the rest of the turn is
\* skipped, so no generate is run in that turn.
ContextFullSkipsRest ==
    (Interactive /\ pc \in { "Restore", "AwaitingLine" } /\ feed_res = "ContextFull")
        => (\A i \in 1..Len(calls) : calls[i] # "generate")

\* C12 amended: context exhaustion in the feed or the generate of a turn is
\* logged, the rest of the turn still runs (generate after the feed, and the
\* restore in non-persistent mode), and the loop awaits the next line.
ContextFullRunsRest ==
    /\ [](Interactive /\ pc = "Restore" =>
            /\ feed_res = "ContextFull" => Logged(PromptExceeds)
            /\ res = "ContextFull" => Logged(ReplyExceeds))
    /\ []((Interactive /\ pc \in { "AwaitingLine", "Closed" } /\ turn >= 1
              /\ (feed_res = "ContextFull" \/ res = "ContextFull")) => calls = FullTurn)
    /\ [][(pc = "Restore" /\ (feed_res = "ContextFull" \/ res = "ContextFull"))
            => (calls' = FullTurn /\ pc' = "AwaitingLine")]_vars

\* C12 witness: a complete non-persistent turn in which both calls ran out of
\* context
ContextFullRunsRestWitness ==
    /\ cmd = "Repl" /\ pc = "AwaitingLine" /\ turn = 1
    /\ feed_res = "ContextFull" /\ res = "ContextFull"
    /\ calls = << "clone", "feed", "generate", "restore" >>

\* C13 as stated: a turn whose feed reported a failure other than ContextFull
\* (here TokenizationFailed) reports it and aborts, so that at the end of the
\* turn an error has been logged and no generate has run.
OtherFailureAbortsTurn ==
    (Interactive /\ pc = "Restore" /\ feed_res = "TokenizationFailed") =>
        /\ \E i \in 1..Len(log) : log[i].level = "error"
        /\ EngineCalls = << "feed" >>

ImpossibleErrors == { "UserCallback", "EndOfText" }

\* C14 as stated: once feed or generate has returned UserCallback or EndOfText
\* the controller is in its asserted-unreachable failure, in infer and in the
\* interactive loop alike.
ImpossibleVariantsAsserted ==
    /\ (cmd = "Infer" /\ res \in ImpossibleErrors /\ pc # "Match") => pc = "Panicked"
    /\ (Interactive /\ feed_res \in ImpossibleErrors /\ pc # "Feed") => pc = "Panicked"
    /\ (Interactive /\ res \in ImpossibleErrors /\ pc \notin { "Feed", "Generate" })
          => pc = "Panicked"

\* C15: the line source is consulted only in AwaitingLine; an accepted line's
\* turn runs feed, generate and restore in this order, and the loop closes
\* only from AwaitingLine, after every operation of the last turn has run.
CancellationBetweenTurns ==
    /\ [][readline' # readline => pc = "AwaitingLine"]_vars
    /\ [][Processing =>
            /\ << pc, pc' >> \in { << "Feed", "Generate" >>, << "Generate", "Restore" >>,
                                   << "Restore", "AwaitingLine" >> }
            /\ readline' = readline]_vars
    /\ [][(pc' = "Closed" /\ pc # "Closed")
            => (~Processing /\ session_backup = None /\ (turn >= 1 => calls = FullTurn))]_vars
    /\ [](pc = "Closed" => (turn >= 1 => calls = FullTurn))

\* C15 witness: end-of-input closed the loop after a complete non-persistent
\* turn that had run out of context
CancellationWitness ==
    /\ cmd = "Repl" /\ pc = "Closed" /\ readline.kind = "Eof" /\ turn = 2
    /\ res = "ContextFull" /\ calls = << "clone", "feed", "generate", "restore" >>

\* number of marker pieces in a template
RECURSIVE Markers(_)
Markers(ps) ==
    IF ps = << >> THEN 0 ELSE (IF Head(ps) = "M" THEN 1 ELSE 0) + Markers(Tail(ps))

\* the template and the user text process_prompt was applied to, if it was
Substituted ==
    IF cmd = "Infer" /\ pc \notin { "Start", "Exited" }
          /\ IsSome(prompt_file) /\ IsSome(prompt_arg)
    THEN Some([ template |-> Unwrap(prompt_file), text |-> Unwrap(prompt_arg) ])
    ELSE IF Interactive /\ Processing /\ IsSome(prompt_file)
    THEN Some([ template |-> Unwrap(prompt_file), text |-> turn_line ])
    ELSE None

\* C16: process_prompt puts the user text in place of every marker of the
\* template and keeps every other character in place; the inserted text is not
\* expanded again, and a template without marker comes back unchanged.
LiteralSubstitution ==
    IsSome(Substituted) =>
        LET a == Unwrap(Substituted)
        IN  \A ps \in PieceSeqs :
               Flatten(ps) = a.template =>
                  /\ prompt = Subst(ps, a.text)
                  /\ Len(prompt) = (Len(ps) - Markers(ps)) + Markers(ps) * Len(a.text)
                  /\ Markers(ps) = 0 => prompt = a.template
                  /\ a.text = Marker => prompt = a.template

\* C16 witness: both markers of "{{PROMPT}}{{PROMPT}}" replaced by the text
\* "{{PROMPT}}", which is itself left alone
LiteralSubstitutionWitness ==
    /\ cmd = "Infer" /\ pc = "Inference"
    /\ prompt_file = Some(Marker \o Marker) /\ prompt_arg = Some(Marker)
    /\ prompt = Marker \o Marker

\* C17: a backup exists exactly during the turns of non-persistent mode; it is
\* the Session the turn started from, taken once and first, untouched by feed
\* and generate, gone once the turn has ended with the Session restored from
\* it; persistent mode never takes one, and the loop never writes a snapshot.
TurnBackupLifetime ==
    Interactive =>
        /\ store = << >>
        /\ chat_mode => (session_backup = None /\ \A i \in 1..Len(calls) : calls[i] # "clone")
        /\ ~Processing => session_backup = None
        /\ (cmd = "Repl" /\ Processing) =>
              /\ session_backup = Some(turn_start)
              /\ calls[1] = "clone"
              /\ \A i \in 2..Len(calls) : calls[i] # "clone"
        /\ (cmd = "Repl" /\ pc = "AwaitingLine" /\ turn >= 1) =>
              /\ session = turn_start
              /\ calls = << "clone", "feed", "generate", "restore" >>

\* C17 witness: the backup still holds the turn's starting Session after feed
\* and generate have changed the Session
TurnBackupWitness ==
    /\ cmd = "Repl" /\ pc = "Restore"
    /\ session_backup = Some(turn_start) /\ session # turn_start

\* C18: a single-shot run whose inference reported ContextFull or
\* TokenizationFailed goes on to the persist step, and with a save or
\* persistence path set the Session as the failed call left it is written.
PersistAfterFailure ==
    (cmd = "Infer" /\ res \in { "ContextFull", "TokenizationFailed" } /\ pc # "Match") =>
        /\ pc \in { "Persist", "Done" }
        /\ (pc = "Done" /\ (IsSome(save_session) \/ IsSome(persist_session))) =>
              (Len(store) = 1 /\ store[1].session = session)

\* C18 witness: a Session grown by a context-exhausted call, in a run that
\* started from an empty one, was written
PersistAfterFailureWitness ==
    /\ cmd = "Infer" /\ pc = "Done" /\ res = "ContextFull" /\ ~session_loaded
    /\ Len(store) = 1 /\ Len(store[1].session) > 0

\* C19: only generation advances the rng; accepting a line and restoring the
\* Session leave it as the turn before left it, in both modes.
RngCarriedOver ==
    /\ [][rng' # rng => pc \in { "Generate", "Inference" }]_vars
    /\ [][(Interactive /\ pc \in { "AwaitingLine", "Feed", "Restore" }) => rng' = rng]_vars

\* C19 witness: two consecutive non-persistent turns from equal Sessions and
\* on the same line printed different text of the same length
RngCarriedOverWitness ==
    /\ cmd = "Repl" /\ pc = "Restore" /\ turn = 2
    /\ turn_start = prev_start /\ turn_line = prev_line
    /\ Len(stdout) = Len(prev_stdout) /\ stdout # prev_stdout
====
